---- MODULE Spec2Model ----
(***************************************************************************)
(* The user-lease pool of the test harness: UserLease (lib/users.py),      *)
(* AtomicLock (utils/file_lock.py) and the session-start hook              *)
(* pytest_sessionstart (tests/plugins/hooks.py, tests/conftest.py).        *)
(*                                                                         *)
(* Processes are OS processes: one main (controller) process and the      *)
(* worker processes.  Every process runs pytest_sessionstart; a worker     *)
(* then constructs a UserLease and calls acquire / release on it.  Each   *)
(* action is one step of one process; steps inside a `with AtomicLock`     *)
(* block are separate actions, so that the lock is what serialises them.   *)
(***************************************************************************)
EXTENDS Integers, FiniteSets, Sequences, TLC

\* ------------------------------------------------------------------ bounds
NumAdmins == 2
MaxCalls == 3

\* ------------------------------------------------------------- model values
None == "None"
NoProc == "NoProc"
Main == "master"
StuckWorker == "stuck_worker"

\* the xdist worker ids of the two worker processes
Workers == {"gw0", "gw1"}
Procs == Workers \cup {Main}

AdminNames == <<"admin1@test.com", "admin2@test.com", "admin3@test.com", "admin4@test.com">>

\* config/user_pool.json: role -> identities in declaration order
Pool ==
    [ADMIN |-> SubSeq(AdminNames, 1, NumAdmins),
     EDITOR |-> <<"editor1@test.com">>,
     VIEWER |-> <<>>]

Roles == DOMAIN Pool

Range(s) == {s[i] : i \in DOMAIN s}

Emails == UNION {Range(Pool[r]) : r \in Roles}

EmptyMap == [e \in {} |-> None]

Put(m, k, v) == [x \in (DOMAIN m) \cup {k} |-> IF x = k THEN v ELSE m[x]]

Del(m, k) == [x \in (DOMAIN m) \ {k} |-> m[x]]

Min(a, b) == IF a <= b THEN a ELSE b

VARIABLES
    state_file,   \* config/user_state.json: [kind, data], data = email -> worker_id
    pool_file,    \* config/user_pool.json: [kind, reserved_by], the inline flags
    lock,         \* holder of config/user_pool.lock, or NoProc
    pc,           \* position of each process
    user,         \* UserLease.user of each worker's lease (its email), or None
    role,         \* UserLease.role
    local,        \* locals of the call in progress: role, current_state, selected_user
    lastCall,     \* outcome of the lease's last call, "in_progress" while one runs
    succ,         \* per role: acquire calls that succeeded before any release began
    exh,          \* per role: acquire calls that found the pool exhausted, likewise
    calls,        \* acquire and release calls, of all leases, that went for the lock
    released,     \* some release call went past its `if not self.user` guard
    outstanding,  \* per email: successful acquires minus completed releases
    free0,        \* emails with no reservation when the session began
    sweepBy       \* processes that executed the reset of the hook

\* the variables of the lease pool
leaseVars == <<state_file, pool_file, lock, pc, user, role, local, lastCall, succ, exh, calls,
               released, outstanding, free0, sweepBy>>

\* SmartAuth (lib/auth.py) for one identity, and the backend's token service
VARIABLES
    auth_state_file,  \* state/<email>.json: [kind, token, user]
    token,            \* SmartAuth.token
    user_data,        \* SmartAuth.user_data
    valid,            \* the tokens the backend's whoami endpoint accepts
    issued,           \* number of tokens the backend has issued
    apc,              \* position inside authenticate()
    acall             \* record of the authenticate() call in progress or last ended

authVars == <<auth_state_file, token, user_data, valid, issued, apc, acall>>

\* SmartUIAuth (lib/ui_auth.py, fixtures/ui_auth.py) for one identity
VARIABLES
    storage_file,  \* state/<email>_storage.json: "missing", or what the file holds
    variant,       \* which SmartUIAuth class the fixture imported: "lib" or "fixtures"
    upc,           \* position inside get_storage_state()
    ucall          \* record of the get_storage_state() call in progress or last ended

uiVars == <<storage_file, variant, upc, ucall>>

\* check_and_heal_seed (lib/seed.py) and the backend's item store
VARIABLES
    items,     \* the backend's items, by _id: [name, owner, active]
    rejected,  \* the templates whose payload the backend's validation refuses
    hpc,       \* position of each healing process inside check_and_heal_seed
    hloc,      \* its locals: loop index, existing_names, target, and what the run saw
    runs,      \* healing runs started
    healed,    \* the runs that returned, in order of return: the store as each left it
    cleanup_enabled,  \* CLEANUP_SEED_ON_START is "true"
    CLEANED_USERS     \* per process: the user ids its module-level set holds

seedVars == <<items, rejected, hpc, hloc, runs, healed, cleanup_enabled, CLEANED_USERS>>

\* ItemBuilder (lib/builders/item_builder.py) and the fixtures that write test
\* data: create_seed_for_user and insert_data_if_not_exists
VARIABLES
    templates,        \* the templates handed to ItemBuilder.build_many
    builder_user_id,  \* its user_id
    clock,            \* the last value datetime.now(timezone.utc) returned
    batches,          \* the lists build_many returned, in order
    seed_tagged,      \* the _ids of the documents whose tags hold 'seed'
    user_email,       \* the email of the owner
    ins,              \* the insert_data_if_not_exists call in progress
    dcalls            \* the last calls of the two fixtures that returned, in order

dataVars == <<templates, builder_user_id, clock, batches, seed_tagged, user_email, ins, dcalls>>

\* setup_mongodb_seed (tests/plugins/data.py), the session fixture of every worker
VARIABLES
    spc   \* position of each worker inside the fixture's create_seed_for_user call

setupVars == <<spc>>

\* what the lease pool's steps leave alone
notLease == <<authVars, uiVars, seedVars, dataVars, setupVars>>

\* what SmartAuth's steps leave alone
notAuth == <<leaseVars, uiVars, seedVars, dataVars, setupVars>>

\* what SmartUIAuth's steps leave alone
notUI == <<leaseVars, authVars, seedVars, dataVars, setupVars>>

\* what the seed healer's steps leave alone
notSeed == <<leaseVars, authVars, uiVars, dataVars, setupVars>>

\* what the builder's and the data fixtures' steps leave alone
notData == <<leaseVars, authVars, uiVars, setupVars>>

vars == <<leaseVars, authVars, uiVars, seedVars, dataVars, setupVars>>

hist == <<lastCall, succ, exh, calls, released, outstanding, free0, sweepBy>>

\* state/<email>.json: absent, not parseable, or the object {token, user}
NoBadge == [kind |-> "missing", token |-> None, user |-> None]

\* no authenticate() call yet
NoAuthCall ==
    [file0 |-> NoBadge, file1 |-> NoBadge, cached |-> <<None, None>>, checked |-> FALSE,
     accepted |-> FALSE, fresh |-> <<None, None>>, logins |-> 0, writes |-> 0,
     outcome |-> "none", ret |-> <<None, None>>]

\* SmartAuth not in use
AuthIdle ==
    /\ auth_state_file = NoBadge
    /\ token = None
    /\ user_data = None
    /\ valid = {}
    /\ issued = 0
    /\ apc = "off"
    /\ acall = NoAuthCall

\* no get_storage_state() call yet
NoUICall ==
    [file0 |-> "missing", file1 |-> "missing", validated |-> FALSE, logins |-> 0,
     outcome |-> "none"]

\* SmartUIAuth not in use
UIIdle ==
    /\ storage_file = "missing"
    /\ variant = "lib"
    /\ upc = "off"
    /\ ucall = NoUICall

\* the processes that heal seed data for one owner
Healers == {"healer1", "healer2"}

\* a healer outside check_and_heal_seed
NoHealLocal ==
    [i |-> 0, existing_names |-> {}, target |-> 0, solo |-> FALSE, listed |-> FALSE,
     inactive0 |-> {}, created |-> 0]

\* the seed healer not in use
SeedIdle ==
    /\ items = <<>>
    /\ rejected = {}
    /\ hpc = [p \in Healers |-> "off"]
    /\ hloc = [p \in Healers |-> NoHealLocal]
    /\ runs = 0
    /\ healed = <<>>
    /\ cleanup_enabled = FALSE
    /\ CLEANED_USERS = [p \in Healers |-> {}]

\* no insert_data_if_not_exists call in progress
NoInsert ==
    [pc |-> "idle", payload |-> <<>>, todo |-> <<>>, created |-> <<>>, names0 |-> {},
     len0 |-> 0, n |-> 0, quiet |-> FALSE]

\* the builder and the data fixtures not in use
DataIdle ==
    /\ templates = <<>>
    /\ builder_user_id = <<>>
    /\ clock = 0
    /\ batches = <<>>
    /\ seed_tagged = {}
    /\ user_email = "none"
    /\ ins = NoInsert
    /\ dcalls = <<>>
    /\ spc = [w \in Workers |-> "off"]

NoLocal == [role |-> None, current_state |-> EmptyMap, selected_user |-> None]

JsonFile(m) == [kind |-> "json", data |-> m]

\* pcs inside a `with AtomicLock(...)` block
CSPcs == {"hook_cs", "init_cs", "acq_cs", "acq_write", "rel_cs", "rel_write"}

InCS(p) == pc[p] \in CSPcs

\* ------------------------------------------------------------------- Init
\* A session starts with whatever the previous run left: user_state.json absent,
\* malformed, or a map with entries of a crashed run's workers; user_pool.json
\* absent or present, possibly with an inline reserved_by flag still set.
StaleMaps == {[e \in S |-> StuckWorker] : S \in SUBSET Emails}

InitStateFiles ==
    {[kind |-> "missing", data |-> EmptyMap], [kind |-> "corrupt", data |-> EmptyMap]}
        \cup {JsonFile(m) : m \in StaleMaps}

PoolFile(k, S) ==
    [kind |-> k, reserved_by |-> [e \in Emails |-> IF e \in S THEN StuckWorker ELSE None]]

\* the pairs (user_state.json, user_pool.json) a session may start from: the pool
\* file present and clean with any state file; the pool file carrying reserved_by
\* flags together with a fully stale state file; no pool file at all
InitFiles ==
    {<<f, PoolFile("json", {})>> : f \in InitStateFiles}
        \cup {<<JsonFile([e \in Emails |-> StuckWorker]), PoolFile("json", {AdminNames[1]})>>}
        \cup {<<f, PoolFile("missing", {})>> :
                 f \in {[kind |-> "missing", data |-> EmptyMap], JsonFile(EmptyMap)}}

Init ==
    /\ \E files \in InitFiles :
         /\ state_file = files[1]
         /\ pool_file = files[2]
    /\ lock = NoProc
    /\ pc = [p \in Procs |-> "boot"]
    /\ user = [w \in Workers |-> None]
    /\ role = [w \in Workers |-> None]
    /\ local = [p \in Procs |-> NoLocal]
    /\ lastCall = [w \in Workers |-> "none"]
    /\ calls = 0
    /\ succ = [r \in Roles |-> 0]
    /\ exh = [r \in Roles |-> 0]
    /\ released = FALSE
    /\ outstanding = [e \in Emails |-> 0]
    /\ free0 = IF state_file.kind = "json" THEN Emails \ DOMAIN state_file.data ELSE Emails
    /\ sweepBy = {}
    /\ AuthIdle
    /\ UIIdle
    /\ SeedIdle
    /\ DataIdle

\* ------------------------------------------------------------- AtomicLock
\* FileLock.acquire as a faulty lock would do it: it does not look at the holder.
AtomicLock_acquire_noexclusion(p) == lock' = p

\* AtomicLock.acquire / __enter__: self.lock.acquire() returns once no other
\* process holds the lock file.
AtomicLock_acquire(p) ==
    /\ lock = NoProc
    /\ lock' = p

\* FileLock raises Timeout when the lock file stayed held by another process for
\* timeout_seconds; AtomicLock.acquire re-raises it as TimeoutError.
AtomicLock_timeout(p) == lock \notin {NoProc, p}

\* __exit__ that releases only on normal completion.
AtomicLock_exit_leak(p, exc) == lock' = IF lock = p /\ ~exc THEN NoProc ELSE lock

\* AtomicLock.__exit__ -> release: runs on every exit of the with block, whether
\* an exception is propagating (exc) or not.
AtomicLock_exit(p, exc) == lock' = IF lock = p THEN NoProc ELSE lock

\* A `with` block entered although the acquisition timed out.
OnTimeout_swallow(p, cs_pc, out_pc) == pc' = [pc EXCEPT ![p] = cs_pc]

\* The TimeoutError raised by AtomicLock.acquire leaves the `with` statement
\* before its body: control goes to out_pc (the caller), never to cs_pc.
OnTimeout(p, cs_pc, out_pc) == pc' = [pc EXCEPT ![p] = out_pc]

\* ------------------------------------------------- pytest_sessionstart hook
HasNoWorkerInput_everyone(p) == TRUE

\* `not hasattr(session.config, 'workerinput')`: true of the main process only.
HasNoWorkerInput(p) == p = Main

AfterHook(p) == IF p = Main THEN "done" ELSE "new"

ResetCount(reserved) == Cardinality({e \in DOMAIN reserved : reserved[e] # None})

\* the hook up to its `with AtomicLock`: main-process check, config existence check
SessionStart(p) ==
    /\ pc[p] = "boot"
    /\ pc' = [pc EXCEPT ![p] =
                IF HasNoWorkerInput(p) /\ pool_file.kind # "missing"
                THEN "hook_lock" ELSE AfterHook(p)]
    /\ UNCHANGED <<notLease, state_file, pool_file, lock, user, role, local, hist>>

HookLock(p) ==
    /\ pc[p] = "hook_lock"
    /\ AtomicLock_acquire(p)
    /\ pc' = [pc EXCEPT ![p] = "hook_cs"]
    /\ UNCHANGED <<notLease, state_file, pool_file, user, role, local, hist>>

\* the TimeoutError is caught by the hook's `except Exception` and printed
HookTimeout(p) ==
    /\ pc[p] = "hook_lock"
    /\ AtomicLock_timeout(p)
    /\ OnTimeout(p, "hook_cs", AfterHook(p))
    /\ UNCHANGED <<notLease, state_file, pool_file, lock, user, role, local, hist>>

\* the body of the hook's with block: every reserved_by of user_pool.json is set
\* to None, and the file is rewritten when at least one was set.
HookSweep(p) ==
    /\ pc[p] = "hook_cs"
    /\ pool_file' =
         IF ResetCount(pool_file.reserved_by) > 0
         THEN PoolFile("json", {})
         ELSE pool_file
    /\ AtomicLock_exit(p, FALSE)
    /\ pc' = [pc EXCEPT ![p] = AfterHook(p)]
    /\ sweepBy' = sweepBy \cup {p}
    /\ UNCHANGED <<notLease, state_file, user, role, local, lastCall, succ, exh, calls,
                   released, outstanding, free0>>

\* ---------------------------------------------------------------- UserLease
\* a load that never reads the file
LoadState_empty(f) == EmptyMap

\* json.load of user_state.json as acquire and release do it: a missing file
\* (STATE_PATH.exists() false) and a malformed one (JSONDecodeError) give {}.
LoadState(f) == IF f.kind = "json" THEN f.data ELSE EmptyMap

\* the read raising what neither acquire nor release catches: open(STATE_PATH, 'r')
\* and json.load on bytes that are not text raise UnicodeDecodeError, which is not
\* a JSONDecodeError
LoadRaises(f) == f.kind = "undecodable"

\* the lazy init writing {} without looking at the file again under the lock
LazyInitFile_nocheck(f) == JsonFile(EmptyMap)

\* __init__, inside the lock: `if not STATE_PATH.exists(): json.dump({}, f)`
LazyInitFile(f) == IF f.kind = "missing" THEN JsonFile(EmptyMap) ELSE f

\* the scan taking the first candidate whether reserved or not
FindFree_first(candidates, current_state) ==
    IF candidates = <<>> THEN None ELSE candidates[1]

\* a scan that takes the last free candidate
FindFree_last(candidates, current_state) ==
    LET free == {i \in DOMAIN candidates : candidates[i] \notin DOMAIN current_state}
    IN  IF free = {} THEN None
        ELSE candidates[CHOOSE i \in free : \A j \in free : i >= j]

\* acquire's scan: the first candidate, in declaration order, whose email is not
\* a key of current_state; None when there is none
FindFree(candidates, current_state) ==
    LET free == {i \in DOMAIN candidates : candidates[i] \notin DOMAIN current_state}
    IN  IF free = {} THEN None
        ELSE candidates[CHOOSE i \in free : \A j \in free : i <= j]

\* pool_config.get(role, [])
Candidates(r) == IF r \in DOMAIN Pool THEN Pool[r] ELSE <<>>

\* UserLease(worker_id): user and role None; the state file is created under the
\* lock when it does not exist
LeaseNew(w) ==
    /\ pc[w] = "new"
    /\ user' = [user EXCEPT ![w] = None]
    /\ role' = [role EXCEPT ![w] = None]
    /\ pc' = [pc EXCEPT ![w] = IF state_file.kind = "missing" THEN "init_lock" ELSE "idle"]
    /\ UNCHANGED <<notLease, state_file, pool_file, lock, local, hist>>

InitLock(w) ==
    /\ pc[w] = "init_lock"
    /\ AtomicLock_acquire(w)
    /\ pc' = [pc EXCEPT ![w] = "init_cs"]
    /\ UNCHANGED <<notLease, state_file, pool_file, user, role, local, hist>>

\* the constructor raises TimeoutError: no lease object; the next test builds one
InitTimeout(w) ==
    /\ pc[w] = "init_lock"
    /\ AtomicLock_timeout(w)
    /\ OnTimeout(w, "init_cs", "new")
    /\ UNCHANGED <<notLease, state_file, pool_file, lock, user, role, local, hist>>

InitCS(w) ==
    /\ pc[w] = "init_cs"
    /\ state_file' = LazyInitFile(state_file)
    /\ AtomicLock_exit(w, FALSE)
    /\ pc' = [pc EXCEPT ![w] = "idle"]
    /\ UNCHANGED <<notLease, pool_file, user, role, local, hist>>

\* acquire(role) up to its `with AtomicLock`: load user_pool.json (no lock), take
\* the candidates of the role; RuntimeError when the file cannot be read or the
\* role has no configured user
AcquireCall(w, r) ==
    /\ pc[w] = "idle"
    /\ IF pool_file.kind # "json"
       THEN /\ lastCall' = [lastCall EXCEPT ![w] = "acquire_config_error"]
            /\ UNCHANGED <<pc, local, calls>>
       ELSE IF Candidates(r) = <<>>
       THEN /\ lastCall' = [lastCall EXCEPT ![w] = "acquire_no_users"]
            /\ UNCHANGED <<pc, local, calls>>
       ELSE /\ calls < MaxCalls
            /\ calls' = calls + 1
            /\ pc' = [pc EXCEPT ![w] = "acq_lock"]
            /\ local' = [local EXCEPT ![w] = [NoLocal EXCEPT !.role = r]]
            /\ lastCall' = [lastCall EXCEPT ![w] = "in_progress"]
    /\ UNCHANGED <<notLease, state_file, pool_file, lock, user, role, succ, exh, released,
                   outstanding, free0, sweepBy>>

AcqLock(w) ==
    /\ pc[w] = "acq_lock"
    /\ AtomicLock_acquire(w)
    /\ pc' = [pc EXCEPT ![w] = "acq_cs"]
    /\ UNCHANGED <<notLease, state_file, pool_file, user, role, local, hist>>

AcqTimeout(w) ==
    /\ pc[w] = "acq_lock"
    /\ AtomicLock_timeout(w)
    /\ OnTimeout(w, "acq_cs", "idle")
    /\ lastCall' = [lastCall EXCEPT ![w] = "acquire_timeout"]
    /\ UNCHANGED <<notLease, state_file, pool_file, lock, user, role, local, succ, exh, calls,
                   released, outstanding, free0, sweepBy>>

\* the lease clearing itself before it raises
RaiseExhausted_clear(w) ==
    /\ user' = [user EXCEPT ![w] = None]
    /\ role' = [role EXCEPT ![w] = None]
    /\ UNCHANGED state_file

\* `if not selected_user: raise RuntimeError(...)`: raised before current_state,
\* the file, self.user or self.role is touched
RaiseExhausted(w) == UNCHANGED <<state_file, user, role>>

\* inside the lock: load the reservations and scan the candidates; with no free
\* candidate the RuntimeError leaves the with block at once
AcqScan(w) ==
    /\ pc[w] = "acq_cs"
    /\ ~LoadRaises(state_file)
    /\ LET current_state == LoadState(state_file)
           selected_user == FindFree(Candidates(local[w].role), current_state)
       IN  IF selected_user = None
           THEN /\ RaiseExhausted(w)
                /\ AtomicLock_exit(w, TRUE)
                /\ pc' = [pc EXCEPT ![w] = "idle"]
                /\ local' = [local EXCEPT ![w] = NoLocal]
                /\ lastCall' = [lastCall EXCEPT ![w] = "acquire_exhausted"]
                /\ exh' = IF released THEN exh ELSE [exh EXCEPT ![local[w].role] = @ + 1]
           ELSE /\ local' = [local EXCEPT ![w].current_state = current_state,
                                          ![w].selected_user = selected_user]
                /\ pc' = [pc EXCEPT ![w] = "acq_write"]
                /\ UNCHANGED <<state_file, user, role, lock, lastCall, exh>>
    /\ UNCHANGED <<notLease, pool_file, succ, calls, released, outstanding, free0, sweepBy>>

\* current_state[email] = worker_id; dump; self.user, self.role; leave the block
AcqWrite(w) ==
    /\ pc[w] = "acq_write"
    /\ state_file' = JsonFile(Put(local[w].current_state, local[w].selected_user, w))
    /\ user' = [user EXCEPT ![w] = local[w].selected_user]
    /\ role' = [role EXCEPT ![w] = local[w].role]
    /\ AtomicLock_exit(w, FALSE)
    /\ pc' = [pc EXCEPT ![w] = "idle"]
    /\ local' = [local EXCEPT ![w] = NoLocal]
    /\ lastCall' = [lastCall EXCEPT ![w] = "acquire_ok"]
    /\ succ' = IF released THEN succ ELSE [succ EXCEPT ![local[w].role] = @ + 1]
    /\ outstanding' = [outstanding EXCEPT ![local[w].selected_user] = @ + 1]
    /\ UNCHANGED <<notLease, pool_file, exh, calls, released, free0, sweepBy>>

\* release leaving the lease's fields as they are
ForgetUser_keep(w) == UNCHANGED <<user, role>>

\* the end of release: self.user = None; self.role = None
ForgetUser(w) ==
    /\ user' = [user EXCEPT ![w] = None]
    /\ role' = [role EXCEPT ![w] = None]

\* release() up to its `with AtomicLock`: `if not self.user: return`
ReleaseCall(w) ==
    /\ pc[w] = "idle"
    /\ IF user[w] = None
       THEN /\ lastCall' = [lastCall EXCEPT ![w] = "release_noop"]
            /\ UNCHANGED <<pc, calls, released, succ, exh>>
       ELSE /\ calls < MaxCalls
            /\ calls' = calls + 1
            /\ pc' = [pc EXCEPT ![w] = "rel_lock"]
            /\ released' = TRUE
            /\ succ' = [r \in Roles |-> 0]
            /\ exh' = [r \in Roles |-> 0]
            /\ lastCall' = [lastCall EXCEPT ![w] = "in_progress"]
    /\ UNCHANGED <<notLease, state_file, pool_file, lock, user, role, local, outstanding, free0,
                   sweepBy>>

RelLock(w) ==
    /\ pc[w] = "rel_lock"
    /\ AtomicLock_acquire(w)
    /\ pc' = [pc EXCEPT ![w] = "rel_cs"]
    /\ UNCHANGED <<notLease, state_file, pool_file, user, role, local, hist>>

RelTimeout(w) ==
    /\ pc[w] = "rel_lock"
    /\ AtomicLock_timeout(w)
    /\ OnTimeout(w, "rel_cs", "idle")
    /\ lastCall' = [lastCall EXCEPT ![w] = "release_timeout"]
    /\ UNCHANGED <<notLease, state_file, pool_file, lock, user, role, local, succ, exh, calls,
                   released, outstanding, free0, sweepBy>>

\* inside the lock: load the reservations
RelLoad(w) ==
    /\ pc[w] = "rel_cs"
    /\ ~LoadRaises(state_file)
    /\ local' = [local EXCEPT ![w].current_state = LoadState(state_file)]
    /\ pc' = [pc EXCEPT ![w] = "rel_write"]
    /\ UNCHANGED <<notLease, state_file, pool_file, lock, user, role, hist>>

\* `if email in current_state: del current_state[email]`; dump; leave the block;
\* forget the user
RelWrite(w) ==
    /\ pc[w] = "rel_write"
    /\ state_file' = JsonFile(Del(local[w].current_state, user[w]))
    /\ AtomicLock_exit(w, FALSE)
    /\ ForgetUser(w)
    /\ pc' = [pc EXCEPT ![w] = "idle"]
    /\ local' = [local EXCEPT ![w] = NoLocal]
    /\ lastCall' = [lastCall EXCEPT ![w] = "release_ok"]
    /\ outstanding' = [outstanding EXCEPT ![user[w]] = @ - 1]
    /\ UNCHANGED <<notLease, pool_file, succ, exh, calls, released, free0, sweepBy>>

\* ------------------------------------------------------------ specification
Next ==
    \/ \E p \in Procs : SessionStart(p)
    \/ \E p \in Procs : HookLock(p)
    \/ \E p \in Procs : HookTimeout(p)
    \/ \E p \in Procs : HookSweep(p)
    \/ \E w \in Workers : LeaseNew(w)
    \/ \E w \in Workers : InitLock(w)
    \/ \E w \in Workers : InitTimeout(w)
    \/ \E w \in Workers : InitCS(w)
    \/ \E w \in Workers : \E r \in Roles : AcquireCall(w, r)
    \/ \E w \in Workers : AcqLock(w)
    \/ \E w \in Workers : AcqTimeout(w)
    \/ \E w \in Workers : AcqScan(w)
    \/ \E w \in Workers : AcqWrite(w)
    \/ \E w \in Workers : ReleaseCall(w)
    \/ \E w \in Workers : RelLock(w)
    \/ \E w \in Workers : RelTimeout(w)
    \/ \E w \in Workers : RelLoad(w)
    \/ \E w \in Workers : RelWrite(w)

Spec == Init /\ [][Next]_vars

\* ------------------------------------------- a damaged reservation file
\* user_state.json overwritten, while nobody holds the lock, by something that is
\* not the lease code: with text that is not JSON, or with bytes that are not text
DamageStateFile(k) ==
    /\ lock = NoProc
    /\ state_file.kind # k
    /\ state_file' = [kind |-> k, data |-> EmptyMap]
    /\ UNCHANGED <<notLease, pool_file, lock, pc, user, role, local, hist>>

\* acquire, inside the lock: the read raises; the error leaves the with block
\* before anything is written or assigned
AcqLoadError(w) ==
    /\ pc[w] = "acq_cs"
    /\ LoadRaises(state_file)
    /\ AtomicLock_exit(w, TRUE)
    /\ pc' = [pc EXCEPT ![w] = "idle"]
    /\ local' = [local EXCEPT ![w] = NoLocal]
    /\ lastCall' = [lastCall EXCEPT ![w] = "acquire_error"]
    /\ UNCHANGED <<notLease, state_file, pool_file, user, role, succ, exh, calls, released,
                   outstanding, free0, sweepBy>>

\* release, inside the lock: the same; self.user is not cleared
RelLoadError(w) ==
    /\ pc[w] = "rel_cs"
    /\ LoadRaises(state_file)
    /\ AtomicLock_exit(w, TRUE)
    /\ pc' = [pc EXCEPT ![w] = "idle"]
    /\ local' = [local EXCEPT ![w] = NoLocal]
    /\ lastCall' = [lastCall EXCEPT ![w] = "release_error"]
    /\ UNCHANGED <<notLease, state_file, pool_file, user, role, succ, exh, calls, released,
                   outstanding, free0, sweepBy>>

NextDamaged ==
    \/ Next
    \/ \E k \in {"corrupt", "undecodable"} : DamageStateFile(k)
    \/ \E w \in Workers : AcqLoadError(w)
    \/ \E w \in Workers : RelLoadError(w)

SpecDamaged == Init /\ [][NextDamaged]_vars

\* =================================================================== claims
\* the emails that have an entry in the reservation map as acquire would read it
Reserved == DOMAIN LoadState(state_file)

LockPcs == {"hook_lock", "init_lock", "acq_lock", "rel_lock"}

\* C1: mutual exclusion of identities: in every reachable state no two leases
\* have the same identity as their current user.
C1_AtMostOneLeaseholder ==
    \A w1, w2 \in Workers : (w1 # w2 /\ user[w1] # None) => user[w1] # user[w2]

C1_Witness ==
    \E w1, w2 \in Workers :
        /\ w1 # w2
        /\ user[w1] # None /\ user[w2] # None
        /\ role[w1] = role[w2]

\* C2: while no release has begun, of the N acquire(role) calls that went through
\* the critical section against K identities of the role free at the start,
\* exactly min(N, K) have succeeded and the others have failed with the
\* pool-exhausted error, and no identity has been returned twice.
FreeAtStart(r) == Cardinality(Range(Pool[r]) \cap free0)

C2_MinNKSucceed ==
    ~released =>
        \A r \in Roles :
            /\ succ[r] = Min(succ[r] + exh[r], FreeAtStart(r))
            /\ \A e \in Range(Pool[r]) : outstanding[e] <= 1

\* K = 1, N = 2: one worker succeeded, the other found the pool exhausted
C2_Witness ==
    /\ ~released
    /\ FreeAtStart("ADMIN") = 1
    /\ succ["ADMIN"] = 1 /\ exh["ADMIN"] = 1
    /\ \E w1, w2 \in Workers :
        /\ w1 # w2
        /\ lastCall[w1] = "acquire_ok" /\ role[w1] = "ADMIN"
        /\ lastCall[w2] = "acquire_exhausted"

\* C3: an acquire that finds every identity of its role reserved leaves the
\* critical section at once with the pool-exhausted error; no step of that call
\* changes the reservation file or the lease's user and role.
C3_ExhaustedFailsFast ==
    [][\A w \in Workers :
         /\ (/\ pc[w] = "acq_cs"
             /\ Range(Candidates(local[w].role)) \subseteq Reserved
             /\ pc'[w] # pc[w])
            => (/\ pc'[w] = "idle"
                /\ lastCall'[w] = "acquire_exhausted"
                /\ state_file' = state_file
                /\ user'[w] = user[w]
                /\ role'[w] = role[w])
         /\ (pc'[w] \in {"acq_lock", "acq_cs"} /\ pc'[w] # pc[w])
            => (state_file' = state_file /\ user'[w] = user[w] /\ role'[w] = role[w])
      ]_vars

\* a lease that holds an identity was refused a second one and still holds the first
C3_Witness ==
    \E w \in Workers :
        /\ lastCall[w] = "acquire_exhausted"
        /\ pc[w] = "idle"
        /\ user[w] # None
        /\ state_file.kind = "json" /\ user[w] \in DOMAIN state_file.data

\* C4: release() called right after a release that returned, or on a lease that
\* has made no call yet, returns at once without error and leaves the
\* reservation file as it was.
C4_ReleaseIdempotent ==
    [][\A w \in Workers :
         (ReleaseCall(w) /\ lastCall[w] \in {"none", "release_ok", "release_noop"})
            => (/\ pc'[w] = "idle"
                /\ lastCall'[w] = "release_noop"
                /\ state_file' = state_file
                /\ lock' = lock
                /\ user'[w] = None)
      ]_vars

\* one lease acquired, released and released again while the other did nothing
C4_Witness ==
    \E w \in Workers :
        /\ lastCall[w] = "release_noop"
        /\ released
        /\ calls = 2
        /\ \A x \in Workers \ {w} : lastCall[x] = "none"

\* C5: once the main process has run the session-start sweep, and before any
\* lease call has gone for the lock, the reservation map is empty.
C5_SweepEmptiesReservations ==
    (Main \in sweepBy /\ calls = 0) => LoadState(state_file) = EmptyMap

\* C6: between two acquire calls that return the same identity a release of that
\* identity has completed: successful acquires of an identity never exceed its
\* completed releases by more than one.
C6_NoReturnWhileHeld ==
    \A e \in Emails : outstanding[e] <= 1

\* the only identity free at the start was returned to b after a released it
C6_Witness ==
    /\ free0 = {AdminNames[1]}
    /\ \E a, b \in Workers :
        /\ a # b
        /\ lastCall[a] = "release_ok"
        /\ lastCall[b] = "acquire_ok" /\ user[b] = AdminNames[1]

\* C7: the reset of the hook is executed by the main process only, and a worker's
\* run of the hook changes no file and does not touch the lock.
C7_SweepOnlyInMain ==
    /\ [](sweepBy \subseteq {Main})
    /\ [][\A w \in Workers :
            (pc[w] = "boot" /\ pc'[w] # "boot")
               => (pc'[w] = "new" /\ UNCHANGED <<state_file, pool_file, lock>>)
         ]_vars

C7_Witness ==
    /\ sweepBy = {Main}
    /\ \A w \in Workers : pc[w] # "boot"

\* C8: critical sections on the pool lock never overlap: at most one process is
\* inside a `with AtomicLock` block, and it is the holder of the lock.
C8_CriticalSectionsDisjoint ==
    \A p, q \in Procs : InCS(p) => (lock = p /\ (InCS(q) => p = q))

\* one process inside its block while two others wait for the lock
C8_Witness ==
    \E p \in Procs :
        /\ InCS(p)
        /\ \A q \in Procs \ {p} : pc[q] \in LockPcs

\* C9: a lock acquisition that times out ends the acquire or release call at
\* once with the timeout error: the caller is not in the critical section, does
\* not wait for the lock again, and the call has changed neither the
\* reservation file nor the lease nor the lock.
C9_TimeoutIsFatal ==
    [][\A w \in Workers :
         /\ (lastCall'[w] \in {"acquire_timeout", "release_timeout"} /\ lastCall[w] = "in_progress")
            => (/\ pc'[w] = "idle"
                /\ state_file' = state_file
                /\ lock' = lock /\ lock' # w
                /\ user' = user /\ role' = role)
         /\ (pc'[w] \in {"acq_lock", "rel_lock"} /\ pc'[w] # pc[w])
            => state_file' = state_file
      ]_vars

\* an acquire and a release both timed out
C9_Witness ==
    \E w1, w2 \in Workers :
        /\ lastCall[w1] = "acquire_timeout" /\ pc[w1] = "idle"
        /\ lastCall[w2] = "release_timeout" /\ pc[w2] = "idle" /\ user[w2] # None

\* C10: the pool lock is held only by a process that is inside a with block: no
\* finished acquire, release, lazy init or hook leaves it held.
C10_LockFreeAfterBlock ==
    \A p \in Procs : lock = p => InCS(p)

\* the block of acquire was left by the pool-exhausted error and the lock is free
C10_Witness ==
    /\ lock = NoProc
    /\ \E w \in Workers : lastCall[w] = "acquire_exhausted" /\ pc[w] = "idle"

\* C11: a lock timeout or a pool exhaustion is raised to the caller by every
\* operation that takes the pool lock.  For acquire and release the call that
\* did not get the lock, or found nobody free, ends with the error and without
\* the effect of the call; for the session-start sweep a hook that went for the
\* lock and returned normally has done the sweep.
C11_LockErrorsSurface ==
    /\ \A w \in Workers :
         /\ lastCall[w] = "acquire_ok" => user[w] # None
         /\ lastCall[w] = "release_ok" => user[w] = None
    /\ \A p \in Procs :
         (HasNoWorkerInput(p) /\ pc[p] = "done" /\ pool_file.kind # "missing")
            => p \in sweepBy

\* C12: a reservation file that cannot be read or parsed is taken as the empty
\* map and never raised: an acquire or a release that finds user_state.json in
\* such a state goes on, with current_state empty, to the step that writes a
\* well-formed map back.
C12_MalformedIsEmpty ==
    [][\A w \in Workers :
         (pc[w] \in {"acq_cs", "rel_cs"} /\ pc'[w] # pc[w]
            /\ state_file.kind \in {"corrupt", "undecodable"})
         => (/\ pc'[w] \in {"acq_write", "rel_write"}
             /\ local'[w].current_state = EmptyMap)
      ]_vars

\* ================================================================ SmartAuth
\* SmartAuth (lib/auth.py, fixtures/auth.py) for one identity.  The identity is
\* leased to one worker at a time, so one process at a time authenticates with
\* it; the backend's tokens expire on their own, and the cache file may be
\* removed or damaged between calls.
MaxTokens == 3

\* the tokens the backend issues, in order of issue
TokenNames == <<"token1", "token2", "token3", "token4", "token5">>

Issued(n) == {TokenNames[i] : i \in 1..n}

\* a token string the backend never issued
BadToken == "INVALID_TOKEN_STRING"

Profiles == {"profile_a", "profile_b"}

\* the lease pool not in use
LeaseIdle ==
    /\ state_file = [kind |-> "missing", data |-> EmptyMap]
    /\ pool_file = PoolFile("missing", {})
    /\ lock = NoProc
    /\ pc = [p \in Procs |-> "off"]
    /\ user = [w \in Workers |-> None]
    /\ role = [w \in Workers |-> None]
    /\ local = [p \in Procs |-> NoLocal]
    /\ lastCall = [w \in Workers |-> "none"]
    /\ calls = 0
    /\ succ = [r \in Roles |-> 0]
    /\ exh = [r \in Roles |-> 0]
    /\ released = FALSE
    /\ outstanding = [e \in Emails |-> 0]
    /\ free0 = {}
    /\ sweepBy = {}

\* a cache file written without the profile
Badge_nouser(t, u) == [kind |-> "json", token |-> t, user |-> None]

\* json.dump({'token': self.token, 'user': self.user_data}, f)
Badge(t, u) == [kind |-> "json", token |-> t, user |-> u]

CorruptBadge == [kind |-> "corrupt", token |-> None, user |-> None]

\* the cache files a session may find: none, an unparseable one, or a badge with
\* a token of an earlier session (or a string that never was a token)
InitBadges(n) ==
    {NoBadge, CorruptBadge}
        \cup {Badge(t, u) : t \in {None, BadToken} \cup Issued(n), u \in Profiles \cup {None}}

InitAuth ==
    /\ LeaseIdle
    /\ UIIdle
    /\ SeedIdle
    /\ DataIdle
    /\ issued \in 0..1
    /\ valid \in SUBSET Issued(issued)
    /\ auth_state_file \in InitBadges(issued)
    /\ token = None
    /\ user_data = None
    /\ apc = "off"
    /\ acall = NoAuthCall

\* SmartAuth(email, password, base_url)
SmartAuthNew ==
    /\ apc \in {"off", "idle"}
    /\ token' = None
    /\ user_data' = None
    /\ apc' = "idle"
    /\ UNCHANGED <<notAuth, auth_state_file, valid, issued, acall>>

\* authenticate() is called
Authenticate ==
    /\ apc = "idle"
    /\ apc' = "load"
    /\ acall' = [NoAuthCall EXCEPT !.file0 = auth_state_file, !.outcome = "in_progress"]
    /\ UNCHANGED <<notAuth, auth_state_file, token, user_data, valid, issued>>

\* step 1: the fields after the attempt to load the state file: taken from the
\* file when it exists and parses, left as they were otherwise (`except: pass`)
LoadBadge(f, t, u) == IF f.kind = "json" THEN <<f.token, f.user>> ELSE <<t, u>>

AuthLoad ==
    /\ apc = "load"
    /\ LET r == LoadBadge(auth_state_file, token, user_data)
       IN  /\ token' = r[1]
           /\ user_data' = r[2]
           /\ acall' = [acall EXCEPT !.cached = r]
    /\ apc' = "check"
    /\ UNCHANGED <<notAuth, auth_state_file, valid, issued>>

\* GET /auth/me with the token: 200 for a token the backend accepts
WhoAmI(t) == IF t \in valid THEN 200 ELSE 401

\* a gate that never opens
IsValid_never(status) == FALSE

\* is_valid = resp.status_code == 200
IsValid(status) == status = 200

\* step 2: `if self.token:` validate it; is_valid stays False without a token
AuthCheck ==
    /\ apc = "check"
    /\ IF token # None
       THEN LET status == WhoAmI(token)
            IN  /\ acall' = [acall EXCEPT !.checked = TRUE, !.accepted = (status = 200)]
                /\ apc' = IF IsValid(status) THEN "ret" ELSE "login"
       ELSE /\ apc' = "login"
            /\ UNCHANGED acall
    /\ UNCHANGED <<notAuth, auth_state_file, token, user_data, valid, issued>>

\* step 3, POST /auth/login answered 200: the backend issues a token it has not
\* issued before, with the identity's profile; both replace the fields
AuthLoginOk(profile) ==
    /\ apc = "login"
    /\ issued < MaxTokens
    /\ issued' = issued + 1
    /\ valid' = valid \cup {TokenNames[issued + 1]}
    /\ token' = TokenNames[issued + 1]
    /\ user_data' = profile
    /\ acall' = [acall EXCEPT !.logins = @ + 1, !.fresh = <<token', profile>>]
    /\ apc' = "save"
    /\ UNCHANGED <<notAuth, auth_state_file>>

\* a failed login that throws the cache file away
FileAfterReject_clear(f) == NoBadge

\* the cache file after `raise ValueError(...)`: the raise comes before the
\* `with open(self.state_file, 'w')`
FileAfterReject(f) == f

\* step 3, POST /auth/login answered otherwise: ValueError, the call ends
AuthLoginRejected ==
    /\ apc = "login"
    /\ auth_state_file' = FileAfterReject(auth_state_file)
    /\ acall' = [acall EXCEPT !.logins = @ + 1, !.outcome = "raised",
                              !.file1 = auth_state_file']
    /\ apc' = "idle"
    /\ UNCHANGED <<notAuth, token, user_data, valid, issued>>

\* "Save Badge"
AuthSave ==
    /\ apc = "save"
    /\ auth_state_file' = Badge(token, user_data)
    /\ acall' = [acall EXCEPT !.writes = @ + 1]
    /\ apc' = "ret"
    /\ UNCHANGED <<notAuth, token, user_data, valid, issued>>

\* return self.token, self.user_data
AuthReturn ==
    /\ apc = "ret"
    /\ acall' = [acall EXCEPT !.outcome = "returned", !.ret = <<token, user_data>>,
                              !.file1 = auth_state_file]
    /\ apc' = "idle"
    /\ UNCHANGED <<notAuth, auth_state_file, token, user_data, valid, issued>>

\* the backend stops accepting a token
TokenExpires(t) ==
    /\ t \in valid
    /\ valid' = valid \ {t}
    /\ UNCHANGED <<notAuth, auth_state_file, token, user_data, issued, apc, acall>>

\* between calls the cache file is removed (clean_state), damaged, or has its
\* token overwritten (corrupt_state of test_auth_smart_gate.py)
TamperBadge(f) ==
    /\ apc = "idle"
    /\ auth_state_file # f
    /\ auth_state_file' = f
    /\ UNCHANGED <<notAuth, token, user_data, valid, issued, apc, acall>>

NextAuth ==
    \/ SmartAuthNew
    \/ Authenticate
    \/ AuthLoad
    \/ AuthCheck
    \/ \E profile \in Profiles : AuthLoginOk(profile)
    \/ AuthLoginRejected
    \/ AuthSave
    \/ AuthReturn
    \/ \E t \in Issued(MaxTokens) : TokenExpires(t)
    \/ \E f \in {NoBadge, CorruptBadge, Badge(BadToken, auth_state_file.user)} : TamperBadge(f)

SpecAuth == InitAuth /\ [][NextAuth]_vars

\* C13: an authenticate() call whose cached token the whoami endpoint accepted
\* makes no login call, returns exactly the token and profile it loaded from the
\* cache, and leaves the cache file as it found it, without writing it.
C13_ValidTokenReused ==
    (acall.outcome = "returned" /\ acall.accepted)
        => /\ acall.logins = 0
           /\ acall.ret = acall.cached
           /\ acall.file0.kind = "json" => acall.ret = <<acall.file0.token, acall.file0.user>>
           /\ acall.writes = 0
           /\ acall.file1 = acall.file0

\* a call returned the token of the cache file, which the backend accepted
C13_Witness ==
    /\ acall.outcome = "returned" /\ acall.accepted
    /\ acall.file0.kind = "json"
    /\ acall.ret[1] = acall.file0.token /\ acall.ret[2] \in Profiles

\* C14: an authenticate() call whose cached token was rejected, or which had no
\* token, makes exactly one login call; when the login succeeds the call returns
\* the token and profile of the login response, not the rejected token, and the
\* cache file then holds exactly that token and profile.
C14_RejectedTokenReplaced ==
    /\ (acall.outcome \in {"returned", "raised"} /\ ~acall.accepted) => acall.logins = 1
    /\ (acall.outcome = "returned" /\ ~acall.accepted)
        => /\ acall.ret = acall.fresh
           /\ acall.ret[1] \notin {None, acall.cached[1]}
           /\ acall.file1 = [kind |-> "json", token |-> acall.fresh[1],
                                              user |-> acall.fresh[2]]

\* a call found a token in the cache, had it rejected, logged in and returned
C14_Witness ==
    /\ acall.outcome = "returned" /\ acall.checked /\ ~acall.accepted
    /\ acall.file0.kind = "json" /\ acall.file0.token \in Issued(MaxTokens)
    /\ acall.file0.user \in Profiles /\ acall.fresh[2] # acall.file0.user

\* C15: an authenticate() call whose login is rejected raises after that one
\* login call, is over, returns no credential, and leaves the cache file exactly
\* as it was when the call began.
C15_RejectedLoginRaises ==
    acall.outcome = "raised"
        => /\ acall.logins = 1
           /\ apc \notin {"login", "save", "ret"}
           /\ acall.ret = <<None, None>>
           /\ acall.writes = 0
           /\ acall.file1 = acall.file0

\* a call with an expired token in the cache file had its login rejected
C15_Witness ==
    /\ acall.outcome = "raised" /\ apc = "idle"
    /\ acall.checked /\ ~acall.accepted
    /\ acall.file0.kind = "json" /\ acall.file1.token \in Issued(MaxTokens)

\* ============================================================== SmartUIAuth
\* SmartUIAuth for one identity.  The repository has two classes of this name:
\* lib/ui_auth.py (used by tests/plugins/actors_ui.py) and fixtures/ui_auth.py
\* (used by tests/conftest.py); `variant` says which one the session imported.
\* The storage-state file is absent, or holds a session the backend accepts
\* ("live"), a session it no longer accepts ("expired"), or something a browser
\* context cannot be built from ("broken").
StorageKinds == {"missing", "live", "expired", "broken"}

InitUIAuth ==
    /\ LeaseIdle
    /\ AuthIdle
    /\ SeedIdle
    /\ DataIdle
    /\ storage_file \in StorageKinds
    /\ variant \in {"lib", "fixtures"}
    /\ upc = "off"
    /\ ucall = NoUICall

\* SmartUIAuth(email, password, browser, base_url)
SmartUIAuthNew ==
    /\ upc \in {"off", "idle"}
    /\ upc' = "idle"
    /\ UNCHANGED <<notUI, storage_file, variant, ucall>>

\* get_storage_state() is called
GetStorageState ==
    /\ upc = "idle"
    /\ upc' = "validate"
    /\ ucall' = [NoUICall EXCEPT !.file0 = storage_file, !.outcome = "in_progress"]
    /\ UNCHANGED <<notUI, storage_file, variant>>

\* a failed validation that leaves the file where it is
AfterInvalid_keep(f) == f

\* self.state_path.unlink(), in both failure branches of lib's _is_state_valid
AfterInvalid(f) == "missing"

\* _is_state_valid(): the answer, the file afterwards, and whether the backend
\* was asked and accepted the session.  lib: no file -> False; a context built
\* from the file is sent to /dashboard; a redirect to /login, or any exception
\* (err: the file does not load, the navigation times out), deletes the file and
\* gives False.  fixtures: os.path.exists(self.state_path), nothing else.
IsStateValid(v, f, err) ==
    IF v = "fixtures"
    THEN [ok |-> f # "missing", file |-> f, validated |-> FALSE]
    ELSE IF f = "missing"
    THEN [ok |-> FALSE, file |-> f, validated |-> FALSE]
    ELSE IF f = "live" /\ ~err
    THEN [ok |-> TRUE, file |-> f, validated |-> TRUE]
    ELSE [ok |-> FALSE, file |-> AfterInvalid(f), validated |-> FALSE]

UIValidate(err) ==
    /\ upc = "validate"
    /\ LET r == IsStateValid(variant, storage_file, err)
       IN  /\ storage_file' = r.file
           /\ ucall' = [ucall EXCEPT !.validated = r.validated]
           /\ upc' = IF r.ok THEN "ret" ELSE "login"
    /\ UNCHANGED <<notUI, variant>>

\* _login_and_save(), the login succeeds: storage_state(path=...) writes the file
UILoginOk ==
    /\ upc = "login"
    /\ storage_file' = "live"
    /\ ucall' = [ucall EXCEPT !.logins = @ + 1]
    /\ upc' = "ret"
    /\ UNCHANGED <<notUI, variant>>

\* _login_and_save(), an exception: the file is removed if it exists, `raise e`
UILoginFails ==
    /\ upc = "login"
    /\ storage_file' = "missing"
    /\ ucall' = [ucall EXCEPT !.logins = @ + 1, !.outcome = "raised",
                              !.file1 = storage_file']
    /\ upc' = "idle"
    /\ UNCHANGED <<notUI, variant>>

\* return self.state_path
UIReturn ==
    /\ upc = "ret"
    /\ ucall' = [ucall EXCEPT !.outcome = "returned", !.file1 = storage_file]
    /\ upc' = "idle"
    /\ UNCHANGED <<notUI, storage_file, variant>>

\* the backend ends the session the file holds (cookies expire)
SessionExpires ==
    /\ storage_file = "live"
    /\ storage_file' = "expired"
    /\ UNCHANGED <<notUI, variant, upc, ucall>>

\* between calls the file is removed or damaged
TamperStorage(k) ==
    /\ upc = "idle"
    /\ storage_file # k
    /\ storage_file' = k
    /\ UNCHANGED <<notUI, variant, upc, ucall>>

NextUIAuth ==
    \/ SmartUIAuthNew
    \/ GetStorageState
    \/ \E err \in BOOLEAN : UIValidate(err)
    \/ UILoginOk
    \/ UILoginFails
    \/ UIReturn
    \/ SessionExpires
    \/ \E k \in {"missing", "broken"} : TamperStorage(k)

SpecUIAuth == InitUIAuth /\ [][NextUIAuth]_vars

\* C16: get_storage_state() logs in through the UI exactly when, in that call,
\* the backend did not accept the stored state: a call that returns has either
\* had the stored state accepted by the backend and not logged in, or logged in
\* once; and the file it returns the path of exists.
C16_LoginIffNotValidated ==
    ucall.outcome = "returned"
        => /\ ucall.logins = 1 <=> ~ucall.validated
           /\ ucall.logins <= 1
           /\ ucall.file1 # "missing"

\* C17: when validation of an existing storage-state file fails, the file is
\* gone before the login starts; and when the login fails the call raises and
\* leaves no storage-state file.
C17_InvalidStateDeleted ==
    /\ (upc = "login" /\ ucall.file0 # "missing") => storage_file = "missing"
    /\ ucall.outcome = "raised" => (ucall.file1 = "missing" /\ ucall.logins = 1)

\* an expired file failed validation, and then the login failed
C17_Witness ==
    /\ ucall.outcome = "raised" /\ upc = "idle"
    /\ ucall.file0 = "expired" /\ variant = "lib"
    /\ storage_file = "missing"

\* ============================================================== seed healer
\* check_and_heal_seed(client, user_id) of lib/seed.py (fixtures/seed.py has the
\* same loop), run by the healing processes for one owner against the backend's
\* item store.  Each request to the backend is
\* one step.  The backend keeps item names unique over all items, active or not,
\* of every owner; it lists and finds for a client only the client's own items.
NumTemplates == 2
MaxRuns == 2
MaxItems == 4

\* SEED_ITEMS, by position
Templates == 1..NumTemplates

\* the user id of the owner, and of another user whose id ends alike
Owner == <<"6", "5", "a", "1", "8", "b", "a", "a">>
OtherOwner == <<"6", "5", "c", "7", "8", "b", "a", "a">>

\* user_id[-4:]
Suffix(user_id) ==
    IF Len(user_id) <= 4 THEN user_id ELSE SubSeq(user_id, Len(user_id) - 3, Len(user_id))

\* a name that changes from run to run
UniqueName_perrun(seed, user_id) == <<seed, " - ", Suffix(user_id), runs>>

\* unique_name = f"{seed['name']} - {user_suffix}"
UniqueName(seed, user_id) == <<seed, " - ", Suffix(user_id)>>

\* the store with, for each of the first n templates, no item, an active or an
\* inactive item of the owner, or an item of the other user under the same name
RECURSIVE StoreOf(_, _)
StoreOf(c, n) ==
    IF n = 0 THEN <<>>
    ELSE LET rest == StoreOf(c, n - 1)
         IN  IF c[n] = "absent" THEN rest
             ELSE Append(rest, [name |-> <<n, " - ", Suffix(Owner)>>,
                                owner |-> IF c[n] = "foreign" THEN OtherOwner ELSE Owner,
                                active |-> c[n] # "inactive"])

InitSeed ==
    /\ LeaseIdle
    /\ AuthIdle
    /\ UIIdle
    /\ DataIdle
    /\ \E c \in [Templates -> {"absent", "active", "inactive", "foreign"}] :
         items = StoreOf(c, NumTemplates)
    /\ rejected \in {{}, {NumTemplates}}
    /\ hpc = [p \in Healers |-> "idle"]
    /\ hloc = [p \in Healers |-> NoHealLocal]
    /\ runs = 0
    /\ healed = <<>>
    /\ cleanup_enabled = FALSE
    /\ CLEANED_USERS = [p \in Healers |-> {}]

\* ------------------------------------------------------------- the backend
\* a listing that ignores the status asked for
Listing_anystatus(user_id, active) ==
    {items[k].name : k \in {j \in DOMAIN items : items[j].owner = user_id}}

\* GET /items (active) and GET /items?status=inactive: the names of the
\* client's own items of that status
Listing(user_id, active) ==
    {items[k].name : k \in {j \in DOMAIN items :
                               items[j].owner = user_id /\ items[j].active = active}}

\* a backend that never answers 409
PostStatus_nocheck(seed, name) == IF seed \in rejected THEN 400 ELSE 201

\* POST /items: 400 for a payload the validation refuses, 409 when an item of
\* that name exists, 201 otherwise
PostStatus(seed, name) ==
    IF seed \in rejected THEN 400
    ELSE IF \E k \in DOMAIN items : items[k].name = name THEN 409
    ELSE 201

\* a search that finds the items of every owner and status
SearchInactive_anyitem(user_id, name) ==
    LET found == {k \in DOMAIN items : items[k].name = name}
    IN  IF found = {} THEN 0 ELSE CHOOSE k \in found : \A j \in found : k <= j

\* GET /items?search=<name>&status=inactive, then
\* next((i for i in candidates if i['name'] == unique_name), None): the _id, or 0
SearchInactive(user_id, name) ==
    LET found == {k \in DOMAIN items :
                    items[k].owner = user_id /\ ~items[k].active /\ items[k].name = name}
    IN  IF found = {} THEN 0 ELSE CHOOSE k \in found : \A j \in found : k <= j

\* the owner's seed items in the store, and the active ones among them
OwnedIds == {k \in DOMAIN items : items[k].owner = Owner}

ActiveIds == {k \in OwnedIds : items[k].active}

DuplicateActive ==
    \E j, k \in DOMAIN items :
        j # k /\ items[j].name = items[k].name /\ items[j].active /\ items[k].active

\* what the store holds at the _id of a document that was deleted
Gone == [name |-> <<>>, owner |-> <<>>, active |-> FALSE]

\* -------------------------------------------------------------- the healer
Busy(p) == hpc[p] \notin {"off", "idle"}

\* check_and_heal_seed is called; a run is solo when no other process is inside
\* check_and_heal_seed at any time during it
HealStart(p) ==
    /\ hpc[p] = "idle"
    /\ runs < MaxRuns
    /\ runs' = runs + 1
    /\ hpc' = [hpc EXCEPT ![p] = IF cleanup_enabled /\ Owner \notin CLEANED_USERS[p]
                                 THEN "cleanup" ELSE "fetch_active"]
    /\ hloc' = [q \in Healers |->
                 IF q = p
                 THEN [NoHealLocal EXCEPT
                         !.solo = \A o \in Healers \ {p} : ~Busy(o),
                         !.listed = TRUE,
                         !.inactive0 = {k \in OwnedIds : ~items[k].active}]
                 ELSE IF Busy(q) THEN [hloc[q] EXCEPT !.solo = FALSE] ELSE hloc[q]]
    /\ UNCHANGED <<notSeed, cleanup_enabled, CLEANED_USERS, items, rejected, healed>>

\* resp = client.get("/items"); the items are taken when the status is 200
HealFetchActive(p, ok) ==
    /\ hpc[p] = "fetch_active"
    /\ hloc' = [hloc EXCEPT
                  ![p].existing_names = IF ok THEN Listing(Owner, TRUE) ELSE {},
                  ![p].listed = ok]
    /\ hpc' = [hpc EXCEPT ![p] = "fetch_inactive"]
    /\ UNCHANGED <<notSeed, cleanup_enabled, CLEANED_USERS, items, rejected, runs, healed>>

\* resp = client.get("/items", params={"status": "inactive"}), likewise
HealFetchInactive(p, ok) ==
    /\ hpc[p] = "fetch_inactive"
    /\ hloc' = [hloc EXCEPT
                  ![p].existing_names = @ \cup (IF ok THEN Listing(Owner, FALSE) ELSE {}),
                  ![p].listed = @ /\ ok,
                  ![p].i = 1]
    /\ hpc' = [hpc EXCEPT ![p] = "loop"]
    /\ UNCHANGED <<notSeed, cleanup_enabled, CLEANED_USERS, items, rejected, runs, healed>>

\* what a returning run leaves behind
Report(p) ==
    [total |-> Cardinality(OwnedIds), active |-> Cardinality(ActiveIds),
     n |-> runs, solo |-> hloc[p].solo, listed |-> hloc[p].listed,
     created |-> hloc[p].created,
     skipped |-> {k \in hloc[p].inactive0 : ~items[k].active},
     duplicates |-> DuplicateActive]

\* the head of the loop over SEED_ITEMS: a name found in existing_names is passed
\* over ("check if inactive?  pass"); after the last template the function returns
HealLoop(p) ==
    /\ hpc[p] = "loop"
    /\ IF hloc[p].i > NumTemplates
       THEN /\ hpc' = [hpc EXCEPT ![p] = "idle"]
            /\ healed' = Append(healed, Report(p))
            /\ hloc' = [hloc EXCEPT ![p] = NoHealLocal]
       ELSE /\ IF UniqueName(hloc[p].i, Owner) \notin hloc[p].existing_names
               THEN /\ hpc' = [hpc EXCEPT ![p] = "post"]
                    /\ UNCHANGED hloc
               ELSE /\ hloc' = [hloc EXCEPT ![p].i = @ + 1]
                    /\ UNCHANGED hpc
            /\ UNCHANGED healed
    /\ UNCHANGED <<notSeed, cleanup_enabled, CLEANED_USERS, items, rejected, runs>>

\* resp = client.post("/items", json=payload): 201 created; 409 goes on to the
\* search; any other status is printed and the loop goes on
HealPost(p) ==
    /\ hpc[p] = "post"
    /\ LET unique_name == UniqueName(hloc[p].i, Owner)
           status == PostStatus(hloc[p].i, unique_name)
       IN  IF status = 201
           THEN /\ Len(items) < MaxItems
                /\ items' = Append(items, [name |-> unique_name, owner |-> Owner,
                                            active |-> TRUE])
                /\ hloc' = [hloc EXCEPT ![p].i = @ + 1, ![p].created = @ + 1]
                /\ hpc' = [hpc EXCEPT ![p] = "loop"]
           ELSE IF status = 409
           THEN /\ hpc' = [hpc EXCEPT ![p] = "search"]
                /\ UNCHANGED <<items, hloc>>
           ELSE /\ hloc' = [hloc EXCEPT ![p].i = @ + 1]
                /\ hpc' = [hpc EXCEPT ![p] = "loop"]
                /\ UNCHANGED items
    /\ UNCHANGED <<notSeed, cleanup_enabled, CLEANED_USERS, rejected, runs, healed>>

\* the search among the inactive items for the exact name; without a target the
\* conflict is printed and the loop goes on
HealSearch(p) ==
    /\ hpc[p] = "search"
    /\ LET target == SearchInactive(Owner, UniqueName(hloc[p].i, Owner))
       IN  IF target # 0
           THEN /\ hloc' = [hloc EXCEPT ![p].target = target]
                /\ hpc' = [hpc EXCEPT ![p] = "activate"]
           ELSE /\ hloc' = [hloc EXCEPT ![p].i = @ + 1]
                /\ hpc' = [hpc EXCEPT ![p] = "loop"]
    /\ UNCHANGED <<notSeed, cleanup_enabled, CLEANED_USERS, items, rejected, runs, healed>>

\* client.patch(f"/items/{target['_id']}/activate"): 200 activates the item; for
\* an item that another process has activated meanwhile the backend answers 200
\* or an error, and for an item that is gone an error; any status but 200 raises
\* RuntimeError out of the function
HealActivate(p, status) ==
    /\ hpc[p] = "activate"
    /\ IF items[hloc[p].target] = Gone THEN status # 200
       ELSE items[hloc[p].target].active \/ status = 200
    /\ IF status = 200
       THEN /\ items' = [items EXCEPT ![hloc[p].target].active = TRUE]
            /\ hloc' = [hloc EXCEPT ![p].i = @ + 1, ![p].target = 0]
            /\ hpc' = [hpc EXCEPT ![p] = "loop"]
       ELSE /\ hpc' = [hpc EXCEPT ![p] = "idle"]
            /\ hloc' = [hloc EXCEPT ![p] = NoHealLocal]
            /\ UNCHANGED items
    /\ UNCHANGED <<notSeed, cleanup_enabled, CLEANED_USERS, rejected, runs, healed>>

NextSeed ==
    \/ \E p \in Healers : HealStart(p)
    \/ \E p \in Healers : \E ok \in BOOLEAN : HealFetchActive(p, ok)
    \/ \E p \in Healers : \E ok \in BOOLEAN : HealFetchInactive(p, ok)
    \/ \E p \in Healers : HealLoop(p)
    \/ \E p \in Healers : HealPost(p)
    \/ \E p \in Healers : HealSearch(p)
    \/ \E p \in Healers : \E status \in {200, 400} : HealActivate(p, status)

SpecSeed == InitSeed /\ [][NextSeed]_vars

\* ------------------------------------------------- CLEANUP_SEED_ON_START=true
\* the query of _cleanup_user_seed_data, {"name": {"$regex":
\* f"Seed Item.* - {user_suffix}$"}}: every SEED_ITEMS name begins "Seed Item"
MatchesCleanup(name, user_id) ==
    /\ Len(name) = 3
    /\ name[1] \in Templates
    /\ name[2] = " - "
    /\ name[3] = Suffix(user_id)

\* _cleanup_user_seed_data(client, user_id), then CLEANED_USERS.add(user_id):
\* delete_many removes every document the query matches; without pymongo or
\* MONGODB_URI, or when MongoDB fails, nothing is removed
HealCleanup(p, done) ==
    /\ hpc[p] = "cleanup"
    /\ items' = IF done
                THEN [k \in DOMAIN items |->
                        IF MatchesCleanup(items[k].name, Owner) THEN Gone ELSE items[k]]
                ELSE items
    /\ CLEANED_USERS' = [CLEANED_USERS EXCEPT ![p] = @ \cup {Owner}]
    /\ hpc' = [hpc EXCEPT ![p] = "fetch_active"]
    /\ UNCHANGED <<notSeed, cleanup_enabled, rejected, hloc, runs, healed>>

\* the session runs with the variable set
InitSeedCleanup ==
    /\ LeaseIdle
    /\ AuthIdle
    /\ UIIdle
    /\ DataIdle
    /\ \E c \in [Templates -> {"absent", "active", "inactive", "foreign"}] :
         items = StoreOf(c, NumTemplates)
    /\ rejected \in {{}, {NumTemplates}}
    /\ hpc = [p \in Healers |-> "idle"]
    /\ hloc = [p \in Healers |-> NoHealLocal]
    /\ runs = 0
    /\ healed = <<>>
    /\ cleanup_enabled = TRUE
    /\ CLEANED_USERS = [p \in Healers |-> {}]

NextSeedCleanup ==
    \/ NextSeed
    \/ \E p \in Healers : \E done \in BOOLEAN : HealCleanup(p, done)

SpecSeedCleanup == InitSeedCleanup /\ [][NextSeedCleanup]_vars

\* two runs that returned one after the other, each with no other process
\* healing during it
InSequence(a, b) ==
    /\ b = a + 1
    /\ healed[a].solo /\ healed[b].solo
    /\ healed[b].n = healed[a].n + 1

\* C18: the second of two healing runs in sequence for the owner creates nothing
\* and leaves the count of the owner's seed items as the first left it (and the
\* count of the active ones too, when its two listings were answered); no run
\* returns with two active items of the same name in the store.
C18_HealTwiceSameCount ==
    /\ \A a, b \in DOMAIN healed :
         InSequence(a, b)
            => /\ healed[b].total = healed[a].total
               /\ healed[b].created = 0
               /\ healed[b].listed => healed[b].active = healed[a].active
    /\ \A a \in DOMAIN healed : ~healed[a].duplicates

\* the first run created every template's item, the second found them all
C18_Witness ==
    \E a, b \in DOMAIN healed :
        /\ InSequence(a, b)
        /\ healed[a].created = NumTemplates
        /\ healed[b].total = NumTemplates /\ healed[b].listed

\* C19: an item of the owner that is inactive under its owned name when a
\* healing run begins is active when the run returns (no other process healing
\* meanwhile).
C19_InactiveReactivated ==
    \A a \in DOMAIN healed : healed[a].solo => healed[a].skipped = {}

C21_SeedCountKept ==
    (rejected = {} /\ healed # <<>>)
        => \A t \in Templates :
              \E k \in DOMAIN items : items[k].name = UniqueName(t, Owner)

\* C24: no step of check_and_heal_seed removes an item from the store, changes
\* its name or owner, or turns its active flag from true to false.
C24_HealOnlyAdds ==
    [][\A k \in DOMAIN items :
          /\ k \in DOMAIN items'
          /\ items'[k].name = items[k].name
          /\ items'[k].owner = items[k].owner
          /\ items[k].active => items'[k].active
      ]_vars

\* ============================================================== ItemBuilder
\* lib/builders/item_builder.py.  A str is the sequence of its characters, over
\* an alphabet with a letter of each case, the space, and the characters of the
\* text '\s+'.
MaxLen == 3
MaxClock == 2

Alphabet == {"A", "s", " ", "\\", "+"}

\* the strings of at most n characters
Strings(n) == UNION {[1..k -> Alphabet] : k \in 0..n}

\* str.lower() and str.upper() of one character
LowerChar(c) == IF c = "A" THEN "a" ELSE IF c = "S" THEN "s" ELSE c

UpperChar(c) == IF c = "a" THEN "A" ELSE IF c = "s" THEN "S" ELSE c

\* str.lower()
Lower(text) == [i \in 1..Len(text) |-> LowerChar(text[i])]

\* str.strip()
Strip(text) ==
    LET inked == {i \in 1..Len(text) : text[i] # " "}
    IN  IF inked = {} THEN <<>>
        ELSE SubSeq(text, CHOOSE i \in inked : \A j \in inked : i <= j,
                          CHOOSE i \in inked : \A j \in inked : i >= j)

\* str.replace(old, new): the occurrences of the text old, from the left
RECURSIVE Replace(_, _, _)
Replace(text, old, new) ==
    IF Len(text) < Len(old) THEN text
    ELSE IF SubSeq(text, 1, Len(old)) = old
         THEN new \o Replace(SubSeq(text, Len(old) + 1, Len(text)), old, new)
         ELSE <<text[1]>> \o Replace(Tail(text), old, new)

\* self.user_id_suffix = user_id[-4:]
user_id_suffix(user_id) ==
    SubSeq(user_id, IF Len(user_id) > 4 THEN Len(user_id) - 3 ELSE 1, Len(user_id))

\* a name that carries the whole user id
full_name_wide(name, user_id) == <<name, " - ", user_id>>

\* full_name = f"{name} - {self.user_id_suffix}"
full_name(name, user_id) == <<name, " - ", user_id_suffix(user_id)>>

\* the characters of such a name
Chars(name) == name[1] \o <<" ", "-", " ">> \o name[3]

\* full_name.lower().strip().replace('\s+', ' ')
normalizedName(name) == Replace(Strip(Lower(Chars(name))), <<"\\", "s", "+">>, <<" ">>)

\* _title_case: ' '.join(word.capitalize() for word in text.strip().split()),
\* character by character; prev is "start" before the first word, else the
\* character before
RECURSIVE TitleFrom(_, _)
TitleFrom(text, prev) ==
    IF text = <<>> THEN <<>>
    ELSE IF text[1] = " "
         THEN TitleFrom(Tail(text), IF prev = "start" THEN prev ELSE " ")
         ELSE (IF prev = "start" THEN <<UpperChar(text[1])>>
               ELSE IF prev = " " THEN <<" ", UpperChar(text[1])>>
               ELSE <<LowerChar(text[1])>>) \o TitleFrom(Tail(text), text[1])

\* cls(user_id).from_template(template).build(), with the value `now` that
\* datetime.now(timezone.utc) returned in __init__
Build(template, user_id, now) ==
    [name |-> full_name(template.name, user_id),
     normalizedName |-> normalizedName(full_name(template.name, user_id)),
     category |-> template.category,
     normalizedCategory |-> TitleFrom(template.category, "start"),
     createdAt |-> now,
     updatedAt |-> now]

\* two templates and a user id
InitBuilder ==
    /\ LeaseIdle
    /\ AuthIdle
    /\ UIIdle
    /\ SeedIdle
    /\ \E n \in Strings(MaxLen), m \in Strings(1),
          c \in {<<"s", " ", " ", "A", "s">>, <<" ", "A">>} :
         templates = <<[name |-> n, category |-> c], [name |-> m, category |-> c]>>
    /\ builder_user_id \in {Owner, <<"a", "b">>}
    /\ clock = 0
    /\ batches = <<>>
    /\ seed_tagged = {}
    /\ user_email = "none"
    /\ ins = NoInsert
    /\ dcalls = <<>>
    /\ spc = [w \in Workers |-> "off"]

\* ItemBuilder.build_many(templates, user_id): one builder per template, each
\* reading the clock in its __init__; the clock does not go back, and it has
\* advanced since the call before
BuildMany ==
    /\ templates # <<>>
    /\ clock < MaxClock
    /\ \E ts \in [1..Len(templates) -> (clock + 1)..MaxClock] :
         /\ \A i, j \in 1..Len(templates) : i <= j => ts[i] <= ts[j]
         /\ batches' = Append(batches, [i \in 1..Len(templates) |->
                                          Build(templates[i], builder_user_id, ts[i])])
         /\ clock' = ts[Len(templates)]
    /\ UNCHANGED <<notData, seedVars, templates, builder_user_id, seed_tagged, user_email,
                   ins, dcalls>>

NextBuilder == BuildMany

SpecBuilder == InitBuilder /\ [][NextBuilder]_vars

\* the last four characters of a user id (all of them when it has fewer)
LastFour(u) == [j \in 1..Min(4, Len(u)) |-> u[Len(u) - Min(4, Len(u)) + j]]

\* C22: every document the builder returns is named as the healer names the
\* seed: the template's name, " - ", and the last four characters of the user
\* id; and two documents built from the same template and user id, at whatever
\* times, have the same name, normalized name and normalized category.
C22_OwnedNamePure ==
    \A a, b \in DOMAIN batches : \A i \in DOMAIN templates :
        /\ batches[a][i].name = UniqueName(templates[i].name, builder_user_id)
        /\ batches[a][i].name = <<templates[i].name, " - ", LastFour(builder_user_id)>>
        /\ batches[a][i].normalizedName = batches[b][i].normalizedName
        /\ batches[a][i].normalizedCategory = batches[b][i].normalizedCategory

\* the same template was built twice, at different times, for the owner
C22_Witness ==
    /\ Len(batches) = 2
    /\ builder_user_id = Owner
    /\ templates[1].name = <<"A", " ", "s">>
    /\ batches[1][1].createdAt # batches[2][1].createdAt
    /\ batches[2][1].normalizedCategory = <<"S", " ", "A", "s">>

\* a text with every run of spaces made one space
RECURSIVE Collapse(_)
Collapse(text) ==
    IF Len(text) < 2 THEN text
    ELSE IF text[1] = " " /\ text[2] = " " THEN Collapse(Tail(text))
    ELSE <<text[1]>> \o Collapse(Tail(text))

\* C27: the normalizedName of every built document is its name in lower case
\* with every run of whitespace made a single space.
C27_NormalizedNameCollapsed ==
    \A a \in DOMAIN batches : \A i \in DOMAIN templates :
        batches[a][i].normalizedName = Collapse(Lower(Chars(batches[a][i].name)))

\* C28: the documents of one build_many call all carry one timestamp, in
\* createdAt and in updatedAt.
C28_OneTimestampPerBatch ==
    \A a \in DOMAIN batches : \A i, j \in DOMAIN batches[a] :
        /\ batches[a][i].createdAt = batches[a][j].createdAt
        /\ batches[a][i].updatedAt = batches[a][i].createdAt

\* ============================================================ data fixtures
\* create_seed_for_user (tests/plugins/mongodb_fixtures.py) writes to the item
\* collection directly; insert_data_if_not_exists (tests/plugins/seed_fixtures.py)
\* goes through the API.  Both run for the owner, on the store the healer uses;
\* the store refuses a second document of a name it holds, on either way in.

\* the history kept of the fixtures' calls: the last two that returned
LastTwo(calls_) == IF Len(calls_) > 2 THEN Tail(calls_) ELSE calls_

\* get_user_seed_data(user_email, use_factory=True): for an email that holds
\* "admin", "editor" or "viewer", as every email of the pool does, the factory's
\* "<Role> Item <i>" templates, here NumTemplates + i; else SEED_ITEMS
ItemsToUse(email) == [t \in Templates |-> IF email \in Emails THEN NumTemplates + t ELSE t]

\* the owner's documents that carry the seed tag
SeedDocs == {k \in seed_tagged : items[k].owner = Owner}

\* a fixture that returns the number of documents it inserted
CreateReturn_inserted(inserted, wanted, final_count) == inserted

\* what _create returns after insert_many: len(result.inserted_ids), or after a
\* BulkWriteError the count of the owner's seed-tagged documents
CreateReturn(inserted, wanted, final_count) ==
    IF inserted = wanted THEN inserted ELSE final_count

\* a store some healing runs and fixture calls have left, for an owner with an
\* email of the pool or another one; documents of an earlier direct seeding
\* carry the seed tag; the backend's validation refuses no payload
InitData ==
    /\ LeaseIdle
    /\ AuthIdle
    /\ UIIdle
    /\ templates = <<>> /\ builder_user_id = <<>> /\ clock = 0 /\ batches = <<>>
    /\ \E c \in [Templates -> {"absent", "active", "inactive", "foreign"}] :
         items = StoreOf(c, NumTemplates)
    /\ rejected = {}
    /\ hpc = [p \in Healers |-> "idle"]
    /\ hloc = [p \in Healers |-> NoHealLocal]
    /\ runs = 0
    /\ healed = <<>>
    /\ cleanup_enabled = FALSE
    /\ CLEANED_USERS = [p \in Healers |-> {}]
    /\ user_email \in {"editor1@test.com", "qa@test.com"}
    /\ seed_tagged \in SUBSET OwnedIds
    /\ user_email \in Emails => seed_tagged = {}
    /\ ins = NoInsert
    /\ dcalls = <<>>
    /\ spc = [w \in Workers |-> "off"]

\* _create(user_email): the limited find, and unless it shows enough documents,
\* build_many and insert_many(ordered=False), which inserts every document whose
\* name the store does not hold
CreateSeedForUser ==
    /\ user_email # "none"
    /\ runs < MaxRuns
    /\ LET items_to_use == ItemsToUse(user_email)
           existing_count == Min(Cardinality(SeedDocs), Len(items_to_use) + 1)
           names == [i \in DOMAIN items_to_use |-> full_name(items_to_use[i], Owner)]
           Fresh(name) == \A k \in DOMAIN items : items[k].name # name
           new == IF existing_count >= Len(items_to_use) THEN <<>>
                  ELSE SelectSeq(names, Fresh)
       IN  /\ Len(items) + Len(new) <= MaxItems
           /\ items' = items \o [i \in DOMAIN new |->
                                   [name |-> new[i], owner |-> Owner, active |-> TRUE]]
           /\ seed_tagged' = seed_tagged \cup ((Len(items) + 1)..(Len(items) + Len(new)))
           /\ dcalls' = LastTwo(Append(dcalls,
                  [fn |-> "create_seed_for_user",
                   ret |-> IF existing_count >= Len(items_to_use) THEN existing_count
                           ELSE CreateReturn(Len(new), Len(items_to_use),
                                             Cardinality(SeedDocs) + Len(new)),
                   created |-> new,
                   tagged |-> Cardinality(SeedDocs) + Len(new),
                   healed0 |-> Len(healed),
                   n |-> runs + 1,
                   quiet |-> \A p \in Healers : ~Busy(p)]))
    /\ runs' = runs + 1
    /\ UNCHANGED <<notData, templates, builder_user_id, clock, batches, user_email, ins,
                   rejected, hpc, hloc, healed, cleanup_enabled, CLEANED_USERS>>

\* a filter that lets nothing through
ItemsToInsert_none(payload, existing_names) == <<>>

\* items_to_insert = [item for item in items_payload
\*                    if item.get('name') not in existing_names]
ItemsToInsert(payload, existing_names) ==
    LET Missing(t) == UniqueName(t, Owner) \notin existing_names
    IN  SelectSeq(payload, Missing)

\* _insert(api_client, items_payload) up to its first POST: one
\* GET /items?search=<name>&limit=1 per name; a name enters existing_names when
\* the answer is 200 and holds an item of exactly that name, which an active item
\* of the client may or may not bring about (another match may be the one item
\* returned).  The payload's items are named like the owner's seed items.
InsertStart(payload, existing_names) ==
    /\ ins.pc = "idle"
    /\ user_email # "none"
    /\ runs < MaxRuns
    /\ existing_names \subseteq Listing(Owner, TRUE)
    /\ runs' = runs + 1
    /\ ins' = [pc |-> "post", payload |-> payload,
               todo |-> ItemsToInsert(payload, existing_names),
               created |-> <<>>,
               names0 |-> {items[k].name : k \in DOMAIN items},
               len0 |-> Len(items),
               n |-> runs + 1,
               quiet |-> \A p \in Healers : ~Busy(p)]
    /\ UNCHANGED <<notData, templates, builder_user_id, clock, batches, user_email, dcalls,
                   seed_tagged, items, rejected, hpc, hloc, healed, cleanup_enabled,
                   CLEANED_USERS>>

\* the loop over items_to_insert: api_client.post('/items', json=payload) for the
\* next item, 201 appending the created item to created_items; after the last
\* item the function returns created_items
InsertPost ==
    /\ ins.pc = "post"
    /\ IF ins.todo = <<>>
       THEN /\ dcalls' = LastTwo(Append(dcalls,
                   [fn |-> "insert_data_if_not_exists",
                    ret |-> Len(ins.created),
                    created |-> ins.created,
                    grew |-> Len(items) - ins.len0,
                    payload |-> ins.payload, names0 |-> ins.names0,
                    n |-> ins.n,
                    quiet |-> ins.quiet /\ runs = ins.n /\ \A p \in Healers : ~Busy(p)]))
            /\ ins' = NoInsert
            /\ UNCHANGED items
       ELSE LET name == UniqueName(Head(ins.todo), Owner)
            IN  IF PostStatus(Head(ins.todo), name) = 201
                THEN /\ Len(items) < MaxItems
                     /\ items' = Append(items, [name |-> name, owner |-> Owner,
                                                 active |-> TRUE])
                     /\ ins' = [ins EXCEPT !.todo = Tail(@), !.created = Append(@, name)]
                     /\ UNCHANGED dcalls
                ELSE /\ ins' = [ins EXCEPT !.todo = Tail(@)]
                     /\ UNCHANGED <<items, dcalls>>
    /\ UNCHANGED <<notData, templates, builder_user_id, clock, batches, user_email,
                   seed_tagged, rejected, hpc, hloc, runs, healed, cleanup_enabled,
                   CLEANED_USERS>>

NextData ==
    \/ CreateSeedForUser
    \/ \E payload \in {s \in UNION {[1..k -> Templates] : k \in 0..2} :
                            \A i, j \in DOMAIN s : i <= j => s[i] <= s[j]} :
         \E existing_names \in SUBSET {UniqueName(t, Owner) : t \in Templates} :
            InsertStart(payload, existing_names)
    \/ InsertPost

SpecData == InitData /\ [][NextData]_vars

\* the two fixtures and the healer on one store
NextPaths == NextSeed \/ NextData

SpecPaths == InitData /\ [][NextPaths]_vars

\* C23: on a backend that refuses no create, with no healing run and no call of
\* create_seed_for_user overlapping another, whichever of the two runs after the
\* other creates nothing.
C23_PathsMutuallyIdempotent ==
    \A d \in DOMAIN dcalls : \A h \in DOMAIN healed :
        (/\ rejected = {}
         /\ dcalls[d].fn = "create_seed_for_user" /\ dcalls[d].quiet
         /\ healed[h].solo /\ healed[h].listed)
        => IF h <= dcalls[d].healed0
           THEN dcalls[d].created = <<>>
           ELSE healed[h].n > dcalls[d].n => healed[h].created = 0

\* two calls of a fixture, one right after the other, nothing else running
Consecutive(a, b, fn) ==
    /\ b = a + 1
    /\ dcalls[a].fn = fn /\ dcalls[b].fn = fn
    /\ dcalls[a].quiet /\ dcalls[b].quiet
    /\ dcalls[b].n = dcalls[a].n + 1

C29_FirstFreeInOrder ==
    [][\A w \in Workers :
          (pc[w] = "acq_write" /\ pc'[w] = "idle")
          => LET m == LoadState(state_file)
                 m1 == LoadState(state_file')
                 cand == Pool[role'[w]]
             IN  /\ \E i \in DOMAIN cand :
                       /\ cand[i] = user'[w]
                       /\ cand[i] \notin DOMAIN m
                       /\ \A j \in 1..(i - 1) : cand[j] \in DOMAIN m
                 /\ DOMAIN m1 = DOMAIN m \cup {user'[w]}
                 /\ m1[user'[w]] = w
                 /\ \A e \in DOMAIN m : m1[e] = m[e]
      ]_vars

\* gw0 was given the first administrator while the second was free too and the
\* map held gw1's reservation of the editor
C29_Witness ==
    /\ lastCall["gw0"] = "acquire_ok"
    /\ user["gw0"] = Pool["ADMIN"][1]
    /\ user["gw1"] = Pool["EDITOR"][1]
    /\ LoadState(state_file) = Put(Put(EmptyMap, Pool["EDITOR"][1], "gw1"), Pool["ADMIN"][1], "gw0")
    /\ outstanding[Pool["ADMIN"][1]] = 1 /\ outstanding[Pool["EDITOR"][1]] = 1
    /\ succ["ADMIN"] = 1 /\ succ["EDITOR"] = 1

\* ------------------------------------------------------- writes in progress
\* Each write of the two files is made in place, by the process that holds the
\* lock: open(STATE_PATH, 'w') empties the file before json.dump fills it
\* (acquire, release); the hook's f.seek(0), json.dump, f.truncate() puts the new
\* text over the old one and cuts the rest of the old text off afterwards.  In
\* between, the file ("torn") holds the complete text of no write.
TornWrite(p) ==
    /\ lock = p
    /\ \/ /\ pc[p] \in {"acq_write", "rel_write"}
          /\ state_file.kind # "torn"
          /\ state_file' = [state_file EXCEPT !.kind = "torn"]
          /\ UNCHANGED pool_file
       \/ /\ pc[p] = "hook_cs"
          /\ pool_file.kind = "json"
          /\ ResetCount(pool_file.reserved_by) > 0
          /\ pool_file' = [pool_file EXCEPT !.kind = "torn"]
          /\ UNCHANGED state_file
    /\ UNCHANGED <<notLease, lock, pc, user, role, local, hist>>

NextTorn ==
    \/ Next
    \/ \E p \in Procs : TornWrite(p)

SpecTorn == Init /\ [][NextTorn]_vars

HealerOf == [w \in Workers |-> IF w = "gw0" THEN "healer1" ELSE "healer2"]

\* acquire has returned the modelled identity to the worker, and the worker is
\* in no call of its lease
Leased(w) == pc[w] = "idle" /\ user[w] = AdminNames[1]

\* the worker is inside authenticate() or inside check_and_heal_seed
InRequests(w) ==
    \/ user[w] = AdminNames[1] /\ apc \notin {"off", "idle"}
    \/ Busy(HealerOf[w])

InitGlobalSeed ==
    /\ state_file \in {[kind |-> "missing", data |-> EmptyMap], JsonFile(EmptyMap)}
    /\ pool_file = PoolFile("json", {})
    /\ lock = NoProc
    /\ pc = [p \in Procs |-> "boot"]
    /\ user = [w \in Workers |-> None]
    /\ role = [w \in Workers |-> None]
    /\ local = [p \in Procs |-> NoLocal]
    /\ lastCall = [w \in Workers |-> "none"]
    /\ calls = 0
    /\ succ = [r \in Roles |-> 0]
    /\ exh = [r \in Roles |-> 0]
    /\ released = FALSE
    /\ outstanding = [e \in Emails |-> 0]
    /\ free0 = Emails
    /\ sweepBy = {}
    /\ issued \in 0..1
    /\ valid = Issued(issued)
    /\ auth_state_file = IF issued = 0 THEN NoBadge ELSE Badge(TokenNames[1], "profile_a")
    /\ token = None
    /\ user_data = None
    /\ apc = "off"
    /\ acall = NoAuthCall
    /\ UIIdle
    /\ DataIdle
    /\ items = StoreOf([t \in Templates |-> IF t = NumTemplates THEN "inactive" ELSE "absent"],
                        NumTemplates)
    /\ rejected = {}
    /\ hpc = [p \in Healers |-> "idle"]
    /\ hloc = [p \in Healers |-> NoHealLocal]
    /\ runs = 0
    /\ healed = <<>>
    /\ cleanup_enabled = FALSE
    /\ CLEANED_USERS = [p \in Healers |-> {}]

\* auth = SmartAuth(email, password); token, user_data = auth.authenticate()
GlobalSeedAuth(w) ==
    /\ Leased(w)
    /\ ~Busy(HealerOf[w])
    /\ \/ SmartAuthNew
       \/ Authenticate
       \/ AuthLoad
       \/ AuthCheck
       \/ AuthLoginOk("profile_a")
       \/ AuthLoginRejected
       \/ AuthSave
       \/ AuthReturn

\* check_and_heal_seed(api, user_data['_id']), with the token authenticate() returned
GlobalSeedHeal(w) ==
    /\ Leased(w)
    /\ apc = "idle"
    /\ token # None
    /\ LET p == HealerOf[w]
       IN  \/ HealStart(p)
           \/ \E ok \in BOOLEAN : HealFetchActive(p, ok)
           \/ \E ok \in BOOLEAN : HealFetchInactive(p, ok)
           \/ HealLoop(p)
           \/ HealPost(p)
           \/ HealSearch(p)
           \/ \E status \in {200, 400} : HealActivate(p, status)

\* lease.acquire("ADMIN") at the start and lease.release() in the `finally`: a
\* process calls them when it is in no other call
GlobalSeedLease(w) ==
    /\ ~InRequests(w)
    /\ \/ AcquireCall(w, "ADMIN")
       \/ ReleaseCall(w)

NextGlobalSeed ==
    \/ \E p \in Procs : SessionStart(p)
    \/ \E p \in Procs : HookLock(p)
    \/ \E p \in Procs : HookTimeout(p)
    \/ \E p \in Procs : HookSweep(p)
    \/ \E w \in Workers : LeaseNew(w)
    \/ \E w \in Workers : InitLock(w)
    \/ \E w \in Workers : InitTimeout(w)
    \/ \E w \in Workers : InitCS(w)
    \/ \E w \in Workers : GlobalSeedLease(w)
    \/ \E w \in Workers : AcqLock(w)
    \/ \E w \in Workers : AcqTimeout(w)
    \/ \E w \in Workers : AcqScan(w)
    \/ \E w \in Workers : AcqWrite(w)
    \/ \E w \in Workers : RelLock(w)
    \/ \E w \in Workers : RelTimeout(w)
    \/ \E w \in Workers : RelLoad(w)
    \/ \E w \in Workers : RelWrite(w)
    \/ \E w \in Workers : GlobalSeedAuth(w)
    \/ \E w \in Workers : GlobalSeedHeal(w)

SpecGlobalSeed == InitGlobalSeed /\ [][NextGlobalSeed]_vars

\* C31: a worker that is inside authenticate() (token validation, login) or
\* inside check_and_heal_seed (item list, create, activate) does not hold the
\* pool lock and is in no `with AtomicLock` block; and a step of a process inside
\* such a block changes nothing but the lease pool's files and fields.
C31_NoRequestUnderLock ==
    [][/\ \A w \in Workers : InRequests(w) => (lock # w /\ ~InCS(w))
       /\ \A w \in Workers : InRequests(w)' => (lock' # w /\ ~InCS(w)')
       /\ \A p \in Procs : (InCS(p) /\ pc'[p] # pc[p]) => UNCHANGED notLease
      ]_vars

\* a worker is posting an item while the other worker holds the lock
C31_Witness ==
    \E w \in Workers :
        /\ hpc[HealerOf[w]] = "post"
        /\ InRequests(w)
        /\ lock \in Workers \ {w}

\* the names of the owner's items of one status, as the store holds them
NamesOf(active) == {items[k].name : k \in {j \in OwnedIds : items[j].active = active}}

\* the positions of a healing run from the first template on
LoopPcs == {"loop", "post", "search", "activate"}

\* C32: a healing run builds existing_names once, before the first template:
\* the names of the active listing, then those of the inactive listing added (a
\* listing answered with another status than 200 adds nothing); from the first
\* template on the set does not change, whatever happens to the store, and a
\* template is posted exactly when its owned name is not in the set.
C32_NamesBuiltOnce ==
    [][\A p \in Healers :
          /\ (hpc[p] = "fetch_active" /\ hpc'[p] # hpc[p])
             => /\ hpc'[p] = "fetch_inactive"
                /\ hloc'[p].i = 0
                /\ hloc'[p].existing_names = IF hloc'[p].listed THEN NamesOf(TRUE) ELSE {}
          /\ (hpc[p] = "fetch_inactive" /\ hpc'[p] # hpc[p])
             => /\ hpc'[p] = "loop"
                /\ hloc'[p].i = 1
                /\ hloc'[p].existing_names \in
                     {hloc[p].existing_names, hloc[p].existing_names \cup NamesOf(FALSE)}
                /\ hloc'[p].listed
                   => hloc'[p].existing_names = hloc[p].existing_names \cup NamesOf(FALSE)
          /\ (hpc[p] \in LoopPcs /\ hpc'[p] \in LoopPcs)
             => hloc'[p].existing_names = hloc[p].existing_names
          /\ (hpc[p] = "loop" /\ hloc[p].i <= NumTemplates /\ hloc'[p] = hloc[p]
                /\ hpc'[p] # hpc[p])
             => /\ hpc'[p] = "post"
                /\ <<hloc[p].i, " - ", Suffix(Owner)>> \notin hloc[p].existing_names
          /\ (hpc[p] = "loop" /\ hloc[p].i <= NumTemplates /\ hloc'[p] # hloc[p]
                /\ hloc'[p].solo = hloc[p].solo)
             => <<hloc[p].i, " - ", Suffix(Owner)>> \in hloc[p].existing_names
      ]_vars

\* a run that listed both statuses is about to post a template whose item
\* another run has created since: the set was not refreshed
C32_Witness ==
    \E p \in Healers :
        /\ hpc[p] = "post"
        /\ hloc[p].listed
        /\ hloc[p].i > 1
        /\ <<hloc[p].i, " - ", Suffix(Owner)>> \in NamesOf(TRUE)
        /\ <<hloc[p].i, " - ", Suffix(Owner)>> \notin hloc[p].existing_names

\* the owner has an inactive item of the owned name of template t
HasInactive(t) ==
    \E k \in OwnedIds : ~items[k].active /\ items[k].name = <<t, " - ", Suffix(Owner)>>

C34_EveryTemplateProcessed ==
    [][\A p \in Healers :
          (Busy(p) /\ hpc'[p] = "idle") => (hpc[p] = "loop" /\ hloc[p].i > NumTemplates)
      ]_vars

\* C35: with CLEANUP_SEED_ON_START=true the owner's seed data is cleaned at
\* most once in a session: a process runs the cleanup only when no process has
\* run it for the owner before, and never after a healing run has returned.
C35_CleanedOncePerSession ==
    [][\A p \in Healers :
          (hpc[p] = "cleanup" /\ hpc'[p] # "cleanup")
          => /\ \A q \in Healers \ {p} : Owner \notin CLEANED_USERS[q]
             /\ healed = <<>>
      ]_vars

\* ------------------------------------------------------ setup_mongodb_seed
\* With ENABLE_SEED_SETUP=true every worker process runs the session fixture,
\* which calls create_seed_for_user(email) for each user of its list; here for
\* the owner.  The find and the insert_many of _create are separate steps, with
\* no lock around them.

\* a collection that takes every document
Accepted_all(names) == names

\* insert_many(items_to_insert, ordered=False): every document is tried; those
\* whose name the collection holds are refused (the BulkWriteError branch)
Accepted(names) ==
    LET Fresh(name) == \A k \in DOMAIN items : items[k].name # name
    IN  SelectSeq(names, Fresh)

InitSeedSetup ==
    /\ LeaseIdle
    /\ AuthIdle
    /\ UIIdle
    /\ templates = <<>> /\ builder_user_id = <<>> /\ clock = 0 /\ batches = <<>>
    /\ \E c \in [Templates -> {"absent", "active", "inactive", "foreign"}] :
         items = StoreOf(c, NumTemplates)
    /\ rejected = {}
    /\ hpc = [p \in Healers |-> "off"]
    /\ hloc = [p \in Healers |-> NoHealLocal]
    /\ runs = 0
    /\ healed = <<>>
    /\ cleanup_enabled = FALSE
    /\ CLEANED_USERS = [p \in Healers |-> {}]
    /\ user_email \in {"editor1@test.com", "qa@test.com"}
    /\ seed_tagged \in SUBSET OwnedIds
    /\ user_email \in Emails => seed_tagged = {}
    /\ ins = NoInsert
    /\ dcalls = <<>>
    /\ spc = [w \in Workers |-> "find"]

\* existing_items = list(items.find({created_by, tags: seed}).limit(n + 1));
\* `if existing_count >= len(items_to_use): return existing_count`
SetupFind(w) ==
    /\ spc[w] = "find"
    /\ LET items_to_use == ItemsToUse(user_email)
           existing_count == Min(Cardinality(SeedDocs), Len(items_to_use) + 1)
       IN  spc' = [spc EXCEPT ![w] = IF existing_count >= Len(items_to_use)
                                     THEN "done" ELSE "insert"]
    /\ UNCHANGED <<leaseVars, authVars, uiVars, seedVars, dataVars>>

\* build_many and insert_many: the accepted documents enter the collection, each
\* with the seed tag
SetupInsert(w) ==
    /\ spc[w] = "insert"
    /\ LET items_to_use == ItemsToUse(user_email)
           names == [i \in DOMAIN items_to_use |-> full_name(items_to_use[i], Owner)]
           new == Accepted(names)
       IN  /\ Len(items) + Len(new) <= MaxItems + NumTemplates
           /\ items' = items \o [i \in DOMAIN new |->
                                   [name |-> new[i], owner |-> Owner, active |-> TRUE]]
           /\ seed_tagged' = seed_tagged \cup ((Len(items) + 1)..(Len(items) + Len(new)))
    /\ spc' = [spc EXCEPT ![w] = "done"]
    /\ UNCHANGED <<leaseVars, authVars, uiVars, templates, builder_user_id, clock, batches,
                   user_email, ins, dcalls, rejected, hpc, hloc, runs, healed,
                   cleanup_enabled, CLEANED_USERS>>

NextSeedSetup ==
    \/ \E w \in Workers : SetupFind(w)
    \/ \E w \in Workers : SetupInsert(w)

SpecSeedSetup == InitSeedSetup /\ [][NextSeedSetup]_vars

C37_NothingOutlivesRelease ==
    \A w \in Workers :
        (lastCall[w] = "release_ok" /\ state_file.kind = "json")
        => \A e \in DOMAIN state_file.data : state_file.data[e] # w

\* C38: the write of release() removes the entry of the lease's user only when
\* the entry names the releasing worker, and leaves every other entry as the
\* load found it.
C38_ReleaseRemovesOwnOnly ==
    [][\A w \in Workers :
          (pc[w] = "rel_write" /\ pc'[w] = "idle")
          => LET cur == local[w].current_state
             IN  state_file' =
                   JsonFile(IF user[w] \in DOMAIN cur /\ cur[user[w]] = w
                            THEN Del(cur, user[w]) ELSE cur)
      ]_vars

\* C39: acquire hands a worker no identity that the lease of another worker
\* holds: one that the other lease acquired and has not begun to release,
\* whatever became of the reservation file in between.
C39_HealKeepsLiveLeases ==
    [][\A w \in Workers :
          (pc[w] = "acq_write" /\ pc'[w] = "idle")
          => \A o \in Workers \ {w} :
               ~(user[o] = user'[w] /\ lastCall[o] = "acquire_ok")
      ]_vars

\* C40: the cleanup of the owner's seed data leaves every item of another
\* owner in the store as it was.
C40_CleanupLeavesOthers ==
    [][\A p \in Healers :
          (hpc[p] = "cleanup" /\ hpc'[p] # "cleanup")
          => \A k \in DOMAIN items : items[k].owner # Owner => items'[k] = items[k]
      ]_vars

====
